---- MODULE Spec2Model ----
(***************************************************************************)
(* The content-generation pipeline: Orchestrator (src/src/orchestrator.py) *)
(* driving the agents of src/src/agents.  One behaviour is the            *)
(* configuration of one Orchestrator (register_agent, set_pipeline)       *)
(* followed by one call of run(input_data).                               *)
(*                                                                         *)
(* run hands current_data to the entry point of every registered agent    *)
(* named in the pipeline list: process for ParserAgent and ProductAgent,  *)
(* execute for the three agents that call the generation client.  The     *)
(* status/output fields those three agents write are declared by their    *)
(* base class, which is not among the source files: its initial status    *)
(* and mark_complete are taken from the specification.                    *)
(*                                                                         *)
(* Further specifications over the same variables: SpecCan (can_execute), *)
(* SpecAgent (generate, generate_json and execute step by step),          *)
(* SpecValidate (src/src/validators.py), SpecExtract (the response        *)
(* cleanup of generate_json) and SpecMain (src/main.py).                  *)
(***************************************************************************)
EXTENDS Naturals, Sequences, FiniteSets

VARIABLES agents, pipeline, pc, idx, current_data, input_data,
          status, output, executed, failedAgent, error

\* One call made directly on an agent object or on the generation client
\* (src/src/llm_client.py): the operation, the agent it is called on, the
\* dict handed to execute, the position inside the call, the generate_json
\* calls issued and what they received, and the state of generate's loop.
VARIABLES op, this, shared_data, h_pc, h_err, llm_log, responses, payload,
          product_b, result, gen_calls, max_retries, attempt, requests,
          waits, outcomes

\* The last can_execute call: the agent, its argument and the value returned.
VARIABLES can_agent, completed_agents, can_result

\* The last call of a function of src/src/validators.py or of the response
\* extraction of generate_json: the function, its argument, what it gave back.
VARIABLES fn, fn_in, fn_out

\* One run of the command-line entry point (src/main.py): its position, the
\* results of the pipeline run, the writes attempted and the files on disk in
\* the order they were written, and the exit status of the process.
VARIABLES m_pc, results, attempts, files, exit_status

engineVars == <<agents, pipeline, pc, idx, current_data, input_data,
                executed, failedAgent, error>>

agentVars == <<status, output>>

callVars == <<op, this, shared_data, h_pc, h_err, llm_log, responses,
              payload, product_b, result, gen_calls, max_retries, attempt,
              requests, waits, outcomes>>

canVars == <<can_agent, completed_agents, can_result>>

toolVars == <<fn, fn_in, fn_out>>

mainVars == <<m_pc, results, attempts, files, exit_status>>

vars == <<engineVars, agentVars, callVars, canVars, toolVars, mainVars>>

\* Longest pipeline list handed to set_pipeline.
MaxPipeline == 2

\* Longest payload list (questions, answers) a generation call returns and
\* largest number of Question objects in the shared data.
MaxItems == 2

\* Largest number of product fields a competitor payload omits or leaves
\* without a usable value.
MaxDeviations == 2

\* Largest max_retries passed to generate.
MaxRetriesArg == 4

\* Longest faqs list and longest products list of an output handed to the
\* validators.
MaxFaqs == 16

MaxProducts == 3

\* Longest response text, in tokens, handed to the cleanup of generate_json.
MaxResponseLen == 4

SeqsUpTo(S, n) == UNION {[1..k -> S] : k \in 0..n}

Range(s) == {s[i] : i \in 1..Len(s)}

----------------------------------------------------------------------------
\* Agents and their declared dependencies

AgentIds == {"parser", "questions", "faq", "product", "comparison"}

\* Agents whose entry point is process(input_data): it returns its argument.
LocalAgents == {"parser", "product"}

\* Agents whose entry point is execute(shared_data): they call the
\* generation client and track their status.
LLMAgents == {"questions", "faq", "comparison"}

QuestionDependencies == {"parser"}

FAQDependencies == {"parser", "questions"}

ComparisonDependencies == {"parser"}

\* parser (no deps); questions, product, comparison (dep: parser);
\* faq (deps: parser, questions)
Dependencies(a) ==
    CASE a = "parser"     -> {}
      [] a = "product"    -> {"parser"}
      [] a = "questions"  -> QuestionDependencies
      [] a = "faq"        -> FAQDependencies
      [] a = "comparison" -> ComparisonDependencies

\* can_execute(completed_agents)
QuestionCanExecute(completed) == "parser" \in completed

FAQCanExecuteAny(completed) == \E dep \in FAQDependencies : dep \in completed

FAQCanExecute(completed) == \A dep \in FAQDependencies : dep \in completed

ComparisonCanExecute(completed) == "parser" \in completed

CanExecute(a, completed) ==
    CASE a = "questions"  -> QuestionCanExecute(completed)
      [] a = "faq"        -> FAQCanExecute(completed)
      [] a = "comparison" -> ComparisonCanExecute(completed)
      [] OTHER            -> Dependencies(a) \subseteq completed

----------------------------------------------------------------------------
\* Data values: a dict is its tag and the set of its keys; the list of
\* Question objects has no keys and cannot be indexed by a string.

RawKeys == {"name"}

ContextKeys == {"parser", "questions"}

InputRecords ==
    {[tag |-> "input", keys |-> RawKeys \cup ks] : ks \in SUBSET ContextKeys}

QuestionList == [tag |-> "questions", keys |-> {}]

FAQOutput == [tag |-> "faq", keys |-> {"page_type", "faqs"}]

ComparisonOutput ==
    [tag |-> "comparison",
     keys |-> {"page_type", "products", "comparison_metrics"}]

NoData == [tag |-> "none", keys |-> {}]

IsDict(d) == d.tag \in {"input", "faq", "comparison"}

\* shared_data[k]: "ok", or the exception the subscript raises
Subscript(d, k) ==
    IF ~IsDict(d) THEN "TypeError"
    ELSE IF k \in d.keys THEN "ok" ELSE "KeyError"

\* The keys execute reads before its first generation call, in order.
ReadKeys(a) ==
    CASE a = "questions"  -> <<"parser">>
      [] a = "faq"        -> <<"parser", "questions">>
      [] a = "comparison" -> <<"parser">>

RECURSIVE ReadAll(_, _, _)
ReadAll(d, ks, i) ==
    IF i > Len(ks) THEN "ok"
    ELSE IF Subscript(d, ks[i]) # "ok" THEN Subscript(d, ks[i])
    ELSE ReadAll(d, ks, i + 1)

----------------------------------------------------------------------------
\* Outcomes of one generate_json call, as the calling agent sees them

LLMOutcomes == {"ok", "missing_field", "service_failure", "bad_json"}

\* generate raises (retries exhausted or another error): Exception;
\* json.loads fails: ValueError
CallError(o) ==
    CASE o = "service_failure" -> "ExternalServiceFailure"
      [] o = "bad_json"        -> "GenerationFailure"
      [] OTHER                 -> "none"

\* QuestionGenerationAgent.execute after shared_data["parser"] was read
QuestionExecute(o) ==
    IF CallError(o) # "none" THEN [err |-> CallError(o), result |-> NoData]
    ELSE IF o = "missing_field"
         THEN [err |-> "SchemaFailure", result |-> NoData]
         ELSE [err |-> "none", result |-> QuestionList]

\* FAQGenerationAgent.execute after its two reads of shared_data
FAQExecute(o) ==
    IF CallError(o) # "none" THEN [err |-> CallError(o), result |-> NoData]
    ELSE IF o = "missing_field"
         THEN [err |-> "SchemaFailure", result |-> NoData]
         ELSE [err |-> "none", result |-> FAQOutput]

\* ComparisonAgent.execute after shared_data["parser"] was read: two calls,
\* the first payload default-filled before Product(**product_b_data)
ComparisonExecute(o1, o2) ==
    IF CallError(o1) # "none" THEN [err |-> CallError(o1), result |-> NoData]
    ELSE IF CallError(o2) # "none"
         THEN [err |-> CallError(o2), result |-> NoData]
         ELSE [err |-> "none", result |-> ComparisonOutput]

Execute(a, d, o1, o2) ==
    IF ReadAll(d, ReadKeys(a), 1) # "ok"
    THEN [err |-> ReadAll(d, ReadKeys(a), 1), result |-> NoData]
    ELSE CASE a = "questions"  -> QuestionExecute(o1)
           [] a = "faq"        -> FAQExecute(o1)
           [] a = "comparison" -> ComparisonExecute(o1, o2)

\* ParserAgent.process / ProductAgent.process
ProcessDropsFields(d) == [d EXCEPT !.keys = {}]

Process(d) == d

\* The status an agent object is constructed with.
InitialStatusRunning == "running"

InitialStatus == "pending"

\* self.status = "running", the first statement of every execute
StatusOnExecute(s) == "running"

\* mark_complete()
MarkComplete(s) == "completed"

\* can_execute assigns nothing: the agent's status after the call
StatusAfterCanExecuteRunning(s) == "running"

StatusAfterCanExecute(s) == s

\* An exception leaving agent.process ends the for loop and run.
PropagateSwallowed(i) == [pc |-> "running", idx |-> i + 1]

Propagate(i) == [pc |-> "raised", idx |-> i]

----------------------------------------------------------------------------
\* No direct call is in progress.
CallIdle ==
    /\ op = "none"
    /\ this = "none"
    /\ shared_data = NoData
    /\ h_pc = "idle"
    /\ h_err = "none"
    /\ llm_log = <<>>
    /\ responses = <<>>
    /\ payload = "none"
    /\ product_b = "none"
    /\ result = "none"
    /\ gen_calls = 0
    /\ max_retries = 0
    /\ attempt = 0
    /\ requests = 0
    /\ waits = <<>>
    /\ outcomes = <<>>

CanIdle ==
    /\ can_agent = "none"
    /\ completed_agents = {}
    /\ can_result = FALSE

ToolIdle ==
    /\ fn = "none"
    /\ fn_in = "none"
    /\ fn_out = "none"

MainIdle ==
    /\ m_pc = [stage |-> "idle", k |-> 0, why |-> "none"]
    /\ results = "none"
    /\ attempts = <<>>
    /\ files = <<>>
    /\ exit_status = "none"

Init ==
    /\ CallIdle
    /\ CanIdle
    /\ ToolIdle
    /\ MainIdle
    /\ agents = {}
    /\ pipeline = <<>>
    /\ pc = "config"
    /\ idx = 0
    /\ current_data = NoData
    /\ input_data = NoData
    /\ status = [a \in AgentIds |-> InitialStatus]
    /\ output = [a \in AgentIds |-> NoData]
    /\ executed = <<>>
    /\ failedAgent = "none"
    /\ error = "none"

\* register_agent(name, agent), each agent under its own identity
RegisterAgent(a) ==
    /\ pc = "config"
    /\ agents' = agents \cup {a}
    /\ UNCHANGED <<pipeline, pc, idx, current_data, input_data, status,
                   output, executed, failedAgent, error>>
    /\ UNCHANGED <<callVars, canVars, toolVars, mainVars>>

\* set_pipeline(pipeline)
SetPipeline(p) ==
    /\ pc = "config"
    /\ pipeline' = p
    /\ UNCHANGED <<agents, pc, idx, current_data, input_data, status,
                   output, executed, failedAgent, error>>
    /\ UNCHANGED <<callVars, canVars, toolVars, mainVars>>

\* run(input_data): current_data = input_data
Run(inp) ==
    /\ pc = "config"
    /\ pc' = "running"
    /\ idx' = 1
    /\ current_data' = inp
    /\ input_data' = inp
    /\ UNCHANGED <<agents, pipeline, status, output, executed, failedAgent,
                   error>>
    /\ UNCHANGED <<callVars, canVars, toolVars, mainVars>>

\* for agent_name in self.pipeline: a name that is not in self.agents
SkipResetsData ==
    /\ pc = "running"
    /\ idx <= Len(pipeline)
    /\ pipeline[idx] \notin agents
    /\ idx' = idx + 1
    /\ current_data' = NoData
    /\ UNCHANGED <<agents, pipeline, pc, input_data, status, output,
                   executed, failedAgent, error>>
    /\ UNCHANGED <<callVars, canVars, toolVars, mainVars>>

Skip ==
    /\ pc = "running"
    /\ idx <= Len(pipeline)
    /\ pipeline[idx] \notin agents
    /\ idx' = idx + 1
    /\ UNCHANGED <<agents, pipeline, pc, current_data, input_data, status,
                   output, executed, failedAgent, error>>
    /\ UNCHANGED <<callVars, canVars, toolVars, mainVars>>

\* current_data = agent.process(current_data), parser and product
ProcessLocal ==
    /\ pc = "running"
    /\ idx <= Len(pipeline)
    /\ pipeline[idx] \in agents
    /\ pipeline[idx] \in LocalAgents
    /\ current_data' = Process(current_data)
    /\ executed' = Append(executed, pipeline[idx])
    /\ idx' = idx + 1
    /\ UNCHANGED <<agents, pipeline, pc, input_data, status, output,
                   failedAgent, error>>
    /\ UNCHANGED <<callVars, canVars, toolVars, mainVars>>

\* the call enters execute: self.status = "running"
ExecuteBegin ==
    /\ pc = "running"
    /\ idx <= Len(pipeline)
    /\ pipeline[idx] \in agents
    /\ pipeline[idx] \in LLMAgents
    /\ status' = [status EXCEPT
                    ![pipeline[idx]] = StatusOnExecute(status[pipeline[idx]])]
    /\ executed' = Append(executed, pipeline[idx])
    /\ pc' = "executing"
    /\ UNCHANGED <<agents, pipeline, idx, current_data, input_data, output,
                   failedAgent, error>>
    /\ UNCHANGED <<callVars, canVars, toolVars, mainVars>>

\* the rest of execute: it returns its result or an exception leaves it
ExecuteEnd(o1, o2) ==
    /\ pc = "executing"
    /\ LET a == pipeline[idx]
           r == Execute(a, current_data, o1, o2)
       IN IF r.err = "none"
          THEN /\ output' = [output EXCEPT ![a] = r.result]
               /\ status' = [status EXCEPT ![a] = MarkComplete(status[a])]
               /\ current_data' = r.result
               /\ idx' = idx + 1
               /\ pc' = "running"
               /\ UNCHANGED <<failedAgent, error>>
          ELSE /\ failedAgent' = a
               /\ error' = r.err
               /\ pc' = Propagate(idx).pc
               /\ idx' = Propagate(idx).idx
               /\ UNCHANGED <<output, status, current_data>>
    /\ UNCHANGED <<agents, pipeline, input_data, executed>>
    /\ UNCHANGED <<callVars, canVars, toolVars, mainVars>>

\* return current_data
Return ==
    /\ pc = "running"
    /\ idx > Len(pipeline)
    /\ pc' = "returned"
    /\ UNCHANGED <<agents, pipeline, idx, current_data, input_data, status,
                   output, executed, failedAgent, error>>
    /\ UNCHANGED <<callVars, canVars, toolVars, mainVars>>

Next ==
    \/ \E a \in AgentIds : RegisterAgent(a)
    \/ \E p \in SeqsUpTo(AgentIds, MaxPipeline) : SetPipeline(p)
    \/ \E inp \in InputRecords : Run(inp)
    \/ Skip
    \/ ProcessLocal
    \/ ExecuteBegin
    \/ \E o1 \in LLMOutcomes, o2 \in LLMOutcomes \ {"missing_field"} :
          ExecuteEnd(o1, o2)
    \/ Return

Spec == Init /\ [][Next]_vars

TypeOK ==
    /\ agents \subseteq AgentIds
    /\ pipeline \in SeqsUpTo(AgentIds, MaxPipeline)
    /\ pc \in {"config", "running", "executing", "returned", "raised"}
    /\ idx \in 0..(MaxPipeline + 1)
    /\ status \in [AgentIds -> {"pending", "running", "completed", "failed"}]
    /\ failedAgent \in AgentIds \cup {"none"}

----------------------------------------------------------------------------
\* The generation client: generate and generate_json

\* max_retries: int = 3
DefaultMaxRetries == 3

\* What one chat.completions.create request does: it returns a response, or
\* raises an error whose text contains "rate", "limit" or "429", or raises
\* any other error.
AttemptOutcomes == {"ok", "rate_limit", "other_error"}

\* if "rate" in error_str.lower() or "limit" in ... or "429" in error_str
IsRateLimitAlways(o) == TRUE

IsRateLimit(o) == o = "rate_limit"

\* for attempt in range(max_retries)
MoreAttemptsInclusive(att, m) == att <= m

MoreAttempts(att, m) == att < m

\* wait_time = (attempt + 1) * 10
WaitTimeFromZero(att) == att * 10

WaitTimeDoubling(att) == 10 * (2 ^ att)

WaitTime(att) == (att + 1) * 10

\* The response text after the code-fence markers are removed and the
\* bracketed span is extracted: json.loads accepts it or raises.
ResponseTexts == {"json", "garbage"}

Decodable(r) == r = "json"

\* except json.JSONDecodeError: raise ValueError, no further generate call
DecodeFailureRetry(gc) == [pc |-> "gen_loop", gen_calls |-> gc + 1]

DecodeFailure(gc) == [pc |-> "raised", gen_calls |-> gc]

\* The items of a decoded questions payload and of a decoded answers payload,
\* by the required field an item lacks.
QItemKinds == {"full", "no_id", "no_text", "no_category"}

FAQItemKinds == {"full", "no_question", "no_answer"}

ProductFields ==
    {"name", "concentration", "skin_type", "key_ingredients", "benefits",
     "how_to_use", "side_effects", "price"}

\* A field of a decoded competitor payload: not in the dict, null, an empty
\* string or list, or a usable value.
BadFieldStates == {"absent", "null", "empty"}

CompetitorPayloads ==
    UNION {{[x \in ProductFields |-> IF x \in D THEN g[x] ELSE "value"] :
               g \in [D -> BadFieldStates]} :
           D \in {S \in SUBSET ProductFields : Cardinality(S) <= MaxDeviations}}

\* What json.loads returns for each generate_json call.
Payloads(label) ==
    CASE label = "questions"  -> SeqsUpTo(QItemKinds, MaxItems)
      [] label = "faq"        -> SeqsUpTo(FAQItemKinds, MaxItems)
      [] label = "competitor" -> CompetitorPayloads
      [] label = "analysis"   -> {"metrics"}
      [] label = "direct"     -> {"json"}

\* generate_json entered: self.generate(json_system_prompt, user_prompt,
\* max_tokens) with the default max_retries
StartGenerateJson(label) ==
    /\ llm_log' = Append(llm_log, label)
    /\ gen_calls' = gen_calls + 1
    /\ max_retries' = DefaultMaxRetries
    /\ attempt' = 0
    /\ outcomes' = <<>>
    /\ waits' = <<>>
    /\ h_pc' = "gen_loop"

\* generate(system_prompt, user_prompt, max_tokens, max_retries) called
\* directly
GenerateCall(m) ==
    /\ op = "none"
    /\ op' = "generate"
    /\ max_retries' = m
    /\ gen_calls' = gen_calls + 1
    /\ attempt' = 0
    /\ outcomes' = <<>>
    /\ waits' = <<>>
    /\ h_pc' = "gen_loop"
    /\ UNCHANGED <<this, shared_data, h_err, llm_log, responses, payload,
                   product_b, result, requests>>
    /\ UNCHANGED <<engineVars, agentVars, canVars, toolVars, mainVars>>

\* generate_json(system_prompt, user_prompt, max_tokens) called directly
GenerateJsonCall ==
    /\ op = "none"
    /\ op' = "generate_json"
    /\ StartGenerateJson("direct")
    /\ UNCHANGED <<this, shared_data, h_err, responses, payload, product_b,
                   result, requests>>
    /\ UNCHANGED <<engineVars, agentVars, canVars, toolVars, mainVars>>

\* One iteration of generate's loop: the request, then return, sleep and
\* continue, or re-raise.
Attempt(o) ==
    /\ h_pc = "gen_loop"
    /\ MoreAttempts(attempt, max_retries)
    /\ requests' = requests + 1
    /\ outcomes' = Append(outcomes, o)
    /\ IF o = "ok"
       THEN /\ h_pc' = IF op = "generate" THEN "returned" ELSE "gen_returned"
            /\ result' = IF op = "generate" THEN "text" ELSE result
            /\ UNCHANGED <<attempt, waits, h_err>>
       ELSE IF IsRateLimit(o)
       THEN /\ waits' = Append(waits, WaitTime(attempt))
            /\ attempt' = attempt + 1
            /\ UNCHANGED <<h_pc, result, h_err>>
       ELSE /\ h_pc' = "raised"
            /\ h_err' = "ExternalServiceFailure"
            /\ UNCHANGED <<attempt, waits, result>>
    /\ UNCHANGED <<op, this, shared_data, llm_log, responses, payload,
                   product_b, gen_calls, max_retries>>
    /\ UNCHANGED <<engineVars, agentVars, canVars, toolVars, mainVars>>

\* The loop is over: raise Exception("Max retries exceeded for rate limiting")
Exhausted ==
    /\ h_pc = "gen_loop"
    /\ ~MoreAttempts(attempt, max_retries)
    /\ h_pc' = "raised"
    /\ h_err' = "ExternalServiceFailure"
    /\ UNCHANGED <<op, this, shared_data, llm_log, responses, payload,
                   product_b, result, gen_calls, max_retries, attempt,
                   requests, waits, outcomes>>
    /\ UNCHANGED <<engineVars, agentVars, canVars, toolVars, mainVars>>

\* generate returned inside generate_json: cleanup, then json.loads
Decode(resp, pl) ==
    /\ h_pc = "gen_returned"
    /\ responses' = Append(responses, resp)
    /\ IF Decodable(resp)
       THEN /\ payload' = pl
            /\ h_pc' = IF op = "generate_json" THEN "returned"
                                               ELSE "gj_returned"
            /\ result' = IF op = "generate_json" THEN pl ELSE result
            /\ UNCHANGED <<h_err, gen_calls>>
       ELSE /\ h_err' = "GenerationFailure"
            /\ h_pc' = DecodeFailure(gen_calls).pc
            /\ gen_calls' = DecodeFailure(gen_calls).gen_calls
            /\ UNCHANGED <<payload, result>>
    /\ UNCHANGED <<op, this, shared_data, llm_log, product_b, max_retries,
                   attempt, requests, waits, outcomes>>
    /\ UNCHANGED <<engineVars, agentVars, canVars, toolVars, mainVars>>

----------------------------------------------------------------------------
\* execute of the three generating agents, step by step

QList(n) == [tag |-> "questions", keys |-> {}, n |-> n]

FAQPage(n) == [tag |-> "faq", keys |-> {"page_type", "faqs"}, n |-> n]

\* The shared_data values execute is called with: a dict with any of the
\* dependency keys (and nq Question objects under "questions"), or a list.
AgentContexts(a) ==
    {c \in [tag : {"input"},
            keys : {RawKeys \cup ks : ks \in SUBSET ContextKeys},
            nq : 0..MaxItems] :
        c.nq > 0 => ("questions" \in c.keys /\ a = "faq")}
    \cup {[tag |-> "questions", keys |-> {}, nq |-> 0]}

\* product = shared_data["parser"]; questions = shared_data["questions"]:
\* subscription leaves the dict as it is
ReadSharedDataPop(d, ks) == [d EXCEPT !.keys = @ \ Range(ks)]

ReadSharedData(d, ks) == d

\* The generate_json calls of each agent, in program order.
QuestionCalls == <<"questions">>

FAQCalls == <<"faq">>

ComparisonCallsSwapped == <<"analysis", "competitor">>

ComparisonCalls == <<"competitor", "analysis">>

Calls(a) ==
    CASE a = "questions"  -> QuestionCalls
      [] a = "faq"        -> FAQCalls
      [] a = "comparison" -> ComparisonCalls

LastCall == IF llm_log = <<>> THEN "direct" ELSE llm_log[Len(llm_log)]

\* Index of the first item that lacks "id", "text" or "category"; 0 if none.
FirstBad(items) ==
    IF \A i \in 1..Len(items) : items[i] = "full"
    THEN 0
    ELSE CHOOSE i \in 1..Len(items) :
            /\ items[i] # "full"
            /\ \A j \in 1..(i - 1) : items[j] = "full"

\* for q_data in response: questions.append(Question(id=q_data["id"], ...))
QuestionConvertPartial(items) ==
    [err |-> "none",
     n |-> IF FirstBad(items) = 0 THEN Len(items) ELSE FirstBad(items) - 1]

QuestionConvert(items) ==
    IF FirstBad(items) = 0
    THEN [err |-> "none", n |-> Len(items)]
    ELSE [err |-> "SchemaFailure", n |-> 0]

\* FAQTemplate.build(faq_items): one entry per item, ValueError for an item
\* without "question" or "answer"
FAQTemplateBuild(items) ==
    IF \A i \in 1..Len(items) : items[i] = "full"
    THEN [err |-> "none", n |-> Len(items)]
    ELSE [err |-> "SchemaFailure", n |-> 0]

\* product_b_data.setdefault(field, default) for each of the eight fields
SetDefaults(p) ==
    [x \in ProductFields |-> IF p[x] = "absent" THEN "default" ELSE p[x]]

\* Product(**product_b_data): str and List[str] fields reject None
ProductValid(pb) == \A x \in ProductFields : pb[x] \notin {"absent", "null"}

Raise(e) ==
    /\ h_pc' = "raised"
    /\ h_err' = e

ExecuteCall(a, d) ==
    /\ op = "none"
    /\ op' = "execute"
    /\ this' = a
    /\ shared_data' = d
    /\ status' = [status EXCEPT ![a] = StatusOnExecute(status[a])]
    /\ h_pc' = "exec_read"
    /\ UNCHANGED <<output, h_err, llm_log, responses, payload, product_b,
                   result, gen_calls, max_retries, attempt, requests, waits,
                   outcomes>>
    /\ UNCHANGED <<engineVars, canVars, toolVars, mainVars>>

ExecuteRead ==
    /\ h_pc = "exec_read"
    /\ shared_data' = ReadSharedData(shared_data, ReadKeys(this))
    /\ LET r == ReadAll(shared_data, ReadKeys(this), 1)
       IN IF r = "ok"
          THEN /\ StartGenerateJson(Calls(this)[1])
               /\ UNCHANGED h_err
          ELSE /\ Raise(r)
               /\ UNCHANGED <<llm_log, gen_calls, max_retries, attempt,
                              outcomes, waits>>
    /\ UNCHANGED <<op, this, responses, payload, product_b, result, requests>>
    /\ UNCHANGED <<engineVars, agentVars, canVars, toolVars, mainVars>>

QuestionsFinish ==
    /\ h_pc = "gj_returned"
    /\ this = "questions"
    /\ LET r == QuestionConvert(payload)
       IN IF r.err = "none"
          THEN /\ output' = [output EXCEPT ![this] = QList(r.n)]
               /\ status' = [status EXCEPT ![this] = MarkComplete(status[this])]
               /\ result' = QList(r.n)
               /\ h_pc' = "returned"
               /\ UNCHANGED h_err
          ELSE /\ Raise(r.err)
               /\ UNCHANGED <<output, status, result>>
    /\ UNCHANGED <<op, this, shared_data, llm_log, responses, payload,
                   product_b, gen_calls, max_retries, attempt, requests,
                   waits, outcomes>>
    /\ UNCHANGED <<engineVars, canVars, toolVars, mainVars>>

FAQFinish ==
    /\ h_pc = "gj_returned"
    /\ this = "faq"
    /\ LET r == FAQTemplateBuild(payload)
       IN IF r.err = "none"
          THEN /\ output' = [output EXCEPT ![this] = FAQPage(r.n)]
               /\ status' = [status EXCEPT ![this] = MarkComplete(status[this])]
               /\ result' = FAQPage(r.n)
               /\ h_pc' = "returned"
               /\ UNCHANGED h_err
          ELSE /\ Raise(r.err)
               /\ UNCHANGED <<output, status, result>>
    /\ UNCHANGED <<op, this, shared_data, llm_log, responses, payload,
                   product_b, gen_calls, max_retries, attempt, requests,
                   waits, outcomes>>
    /\ UNCHANGED <<engineVars, canVars, toolVars, mainVars>>

\* The comparison agent after one of its two calls returned: the next call
\* in program order, or the template and mark_complete after the last one.
ComparisonStep ==
    /\ h_pc = "gj_returned"
    /\ this = "comparison"
    /\ LET k == Len(llm_log)
           pb == IF LastCall = "competitor" THEN SetDefaults(payload)
                                            ELSE product_b
       IN /\ product_b' = pb
          /\ IF LastCall = "competitor" /\ ~ProductValid(pb)
             THEN /\ Raise("SchemaFailure")
                  /\ UNCHANGED <<output, status, result, llm_log, gen_calls,
                                 max_retries, attempt, outcomes, waits>>
             ELSE IF k < Len(Calls(this))
             THEN /\ StartGenerateJson(Calls(this)[k + 1])
                  /\ UNCHANGED <<output, status, result, h_err>>
             ELSE /\ output' = [output EXCEPT ![this] = ComparisonOutput]
                  /\ status' = [status EXCEPT ![this] = MarkComplete(status[this])]
                  /\ result' = ComparisonOutput
                  /\ h_pc' = "returned"
                  /\ UNCHANGED <<h_err, llm_log, gen_calls, max_retries,
                                 attempt, outcomes, waits>>
    /\ UNCHANGED <<op, this, shared_data, responses, payload, requests>>
    /\ UNCHANGED <<engineVars, canVars, toolVars, mainVars>>

NextAgent ==
    \/ \E m \in 0..MaxRetriesArg : GenerateCall(m)
    \/ GenerateJsonCall
    \/ \E a \in LLMAgents : \E d \in AgentContexts(a) : ExecuteCall(a, d)
    \/ ExecuteRead
    \/ \E o \in AttemptOutcomes : Attempt(o)
    \/ Exhausted
    \/ \E r \in ResponseTexts : \E pl \in Payloads(LastCall) : Decode(r, pl)
    \/ QuestionsFinish
    \/ FAQFinish
    \/ ComparisonStep

SpecAgent == Init /\ [][NextAgent]_vars

\* The calls are sequential code: a step that can be taken is taken.
SpecAgentFair == SpecAgent /\ WF_vars(NextAgent)

----------------------------------------------------------------------------
\* src/src/validators.py

\* MIN_FAQ_COUNT = 15
MIN_FAQ_COUNT == 15

\* The values handed to the validators: None, an empty dict, or a dict with
\* or without "page_type", "faqs" (a list of faq_count entries or something
\* that is not a list), "sections" and "products" (product_count entries).
Outputs ==
    [kind : {"dict"},
     page_type : {"absent", "faq", "product", "comparison", "other"},
     faqs : {"absent", "notlist", "list"},
     faq_count : 0..MaxFaqs,
     sections : BOOLEAN,
     products : {"absent", "list"},
     product_count : 0..MaxProducts]

NoFields(k) ==
    [kind |-> k, page_type |-> "absent", faqs |-> "absent", faq_count |-> 0,
     sections |-> FALSE, products |-> "absent", product_count |-> 0]

ValidatorInputs ==
    {o \in Outputs : /\ o.faqs # "list" => o.faq_count = 0
                     /\ o.products # "list" => o.product_count = 0}
    \cup {NoFields("None"), NoFields("empty")}

\* if not output
Falsy(o) == o.kind \in {"None", "empty"}

\* What a validator call ends with: None returned, or ValueError with the
\* condition its message states and the numbers the message carries.
Accepted == [error |-> "none", minimum |-> 0, count |-> 0]

ValueError(e) == [error |-> e, minimum |-> 0, count |-> 0]

\* f"FAQ count ({faq_count}) is less than required minimum ({MIN_FAQ_COUNT})"
CountError(n) == [error |-> "faq_count", minimum |-> MIN_FAQ_COUNT, count |-> n]

\* f"Comparison must have exactly 2 products, got {len(output['products'])}"
ProductsError(n) == [error |-> "product_count", minimum |-> 2, count |-> n]

\* if faq_count < MIN_FAQ_COUNT
BelowMinimumInclusive(n) == n <= MIN_FAQ_COUNT

BelowMinimum(n) == n < MIN_FAQ_COUNT

\* if len(output["products"]) != 2
WrongProductCountBelow(n) == n < 2

WrongProductCount(n) == n # 2

validate_faq_count(faq_output) ==
    IF Falsy(faq_output) THEN ValueError("empty")
    ELSE IF faq_output.faqs = "absent" THEN ValueError("missing_faqs")
    ELSE IF faq_output.faqs = "notlist" THEN ValueError("faqs_not_list")
    ELSE IF BelowMinimum(faq_output.faq_count)
         THEN CountError(faq_output.faq_count)
    ELSE Accepted

validate_output_schema(out, schema_type) ==
    IF Falsy(out) THEN ValueError("empty")
    ELSE IF out.page_type = "absent" THEN ValueError("missing_page_type")
    ELSE IF out.page_type # schema_type THEN ValueError("page_type")
    ELSE IF schema_type = "faq" THEN validate_faq_count(out)
    ELSE IF schema_type = "product"
         THEN IF ~out.sections THEN ValueError("missing_sections")
                               ELSE Accepted
    ELSE IF schema_type = "comparison"
         THEN IF out.products = "absent" THEN ValueError("missing_products")
              ELSE IF WrongProductCount(out.product_count)
                   THEN ProductsError(out.product_count)
              ELSE Accepted
    ELSE Accepted

SchemaTypes == {"faq", "product", "comparison"}

ValidateFaqCount(o) ==
    /\ fn = "none"
    /\ fn' = "validate_faq_count"
    /\ fn_in' = [output |-> o, schema_type |-> "faq"]
    /\ fn_out' = validate_faq_count(o)
    /\ UNCHANGED <<engineVars, agentVars, callVars, canVars, mainVars>>

ValidateOutputSchema(o, t) ==
    /\ fn = "none"
    /\ fn' = "validate_output_schema"
    /\ fn_in' = [output |-> o, schema_type |-> t]
    /\ fn_out' = validate_output_schema(o, t)
    /\ UNCHANGED <<engineVars, agentVars, callVars, canVars, mainVars>>

NextValidate ==
    \/ \E o \in ValidatorInputs : ValidateFaqCount(o)
    \/ \E o \in ValidatorInputs, t \in SchemaTypes : ValidateOutputSchema(o, t)

SpecValidate == Init /\ [][NextValidate]_vars

----------------------------------------------------------------------------
\* The response cleanup of generate_json

\* A response text as a sequence of tokens: the four bracket characters, a
\* JSON scalar ("v"), a stretch of other text ("t") and a code-fence marker
\* ("f": ``` or ```json).
ResponseTokens == {"[", "]", "{", "}", "v", "t", "f"}

Closer(c) == IF c = "[" THEN "]" ELSE "}"

\* response.replace("```json", "").replace("```", "").strip()
StripFences(r) == LET NotFence(c) == c # "f" IN SelectSeq(r, NotFence)

\* re.search(r'(\[[\s\S]*\]|\{[\s\S]*\})', response): the leftmost position
\* where one of the two alternatives matches, and from there, [\s\S]* being
\* greedy, up to the last closing character of the same kind.
MatchesAt(r, i) ==
    /\ r[i] \in {"[", "{"}
    /\ \E j \in (i + 1)..Len(r) : r[j] = Closer(r[i])

HasMatch(r) == \E i \in 1..Len(r) : MatchesAt(r, i)

MatchStart(r) ==
    CHOOSE i \in 1..Len(r) :
        MatchesAt(r, i) /\ \A k \in 1..(i - 1) : ~MatchesAt(r, k)

MatchEnd(r, i) ==
    CHOOSE j \in (i + 1)..Len(r) :
        r[j] = Closer(r[i]) /\ \A k \in (j + 1)..Len(r) : r[k] # Closer(r[i])

\* if json_match: response = json_match.group(1)
Extract(r) ==
    IF HasMatch(r)
    THEN SubSeq(r, MatchStart(r), MatchEnd(r, MatchStart(r)))
    ELSE r

\* json.loads accepts a text that is exactly one JSON value: a scalar, or an
\* array or object whose brackets nest and close properly.
RECURSIVE IsJson(_, _, _)
IsJson(r, i, open) ==
    IF i > Len(r) THEN i > 1 /\ open = <<>>
    ELSE IF i > 1 /\ open = <<>> THEN FALSE
    ELSE IF r[i] \in {"[", "{"} THEN IsJson(r, i + 1, <<r[i]>> \o open)
    ELSE IF r[i] \in {"]", "}"}
         THEN /\ open # <<>>
              /\ r[i] = Closer(Head(open))
              /\ IsJson(r, i + 1, Tail(open))
    ELSE IF r[i] = "v" THEN IsJson(r, i + 1, open)
    ELSE FALSE

\* return json.loads(response), or ValueError("Invalid JSON from LLM")
json_loads(r) ==
    IF IsJson(r, 1, <<>>) THEN [err |-> "none", value |-> r]
                          ELSE [err |-> "GenerationFailure", value |-> <<>>]

DecodeResponse(r) == json_loads(Extract(StripFences(r)))

GenerateJsonExtract(r) ==
    /\ fn = "none"
    /\ fn' = "generate_json"
    /\ fn_in' = r
    /\ fn_out' = DecodeResponse(r)
    /\ UNCHANGED <<engineVars, agentVars, callVars, canVars, mainVars>>

NextExtract ==
    \E r \in SeqsUpTo(ResponseTokens, MaxResponseLen) : GenerateJsonExtract(r)

SpecExtract == Init /\ [][NextExtract]_vars

----------------------------------------------------------------------------
\* The command-line entry point, src/main.py

\* validate_output_schema(results["faq"], "faq"), then "product", then
\* "comparison"
ValidationOrder == <<"faq", "product", "comparison">>

\* write_json_output(results["faq"], "faq.json", ...), then
\* "product_page.json", then "comparison_page.json"
WriteOrder == <<"faq", "product", "comparison">>

FileName(t) ==
    CASE t = "faq"        -> "faq.json"
      [] t = "product"    -> "product_page.json"
      [] t = "comparison" -> "comparison_page.json"

\* What the pipeline run can hand back under one key: a page that passes
\* validation, one that breaks the rule of its type, one of another type,
\* None, or no entry under the key at all.
GoodPage(t) ==
    [kind |-> "dict", page_type |-> t,
     faqs |-> IF t = "faq" THEN "list" ELSE "absent",
     faq_count |-> IF t = "faq" THEN MIN_FAQ_COUNT ELSE 0,
     sections |-> t = "product",
     products |-> IF t = "comparison" THEN "list" ELSE "absent",
     product_count |-> IF t = "comparison" THEN 2 ELSE 0]

ResultChoices(t) ==
    {GoodPage(t),
     [GoodPage(t) EXCEPT !.faq_count = 0, !.sections = FALSE,
                         !.product_count = 0],
     [GoodPage(t) EXCEPT !.page_type = "other"],
     NoFields("None"),
     NoFields("missing")}

ResultSets == {r \in [SchemaTypes -> UNION {ResultChoices(t) : t \in SchemaTypes}] :
                  \A t \in SchemaTypes : r[t] \in ResultChoices(t)}

\* What one write_json_output call does: writes the file; raises ValueError
\* before touching the disk (json.dumps failed); raises before the file
\* exists (directory or open failed); raises while writing the opened file.
WriteOutcomes == {"ok", "not_serializable", "open_failed", "dump_failed"}

At(stage, k) == [stage |-> stage, k |-> k, why |-> "none"]

\* sys.exit(1), or an exception no handler of main catches
Exit(why) == [stage |-> "exited", k |-> 0, why |-> why]

\* except ValueError as e: ... sys.exit(1)
AfterValidationIgnored(failed, k) ==
    IF k < Len(ValidationOrder) THEN At("validate", k + 1) ELSE At("write", 1)

AfterValidation(failed, k) ==
    IF failed THEN Exit("validation")
    ELSE IF k < Len(ValidationOrder) THEN At("validate", k + 1)
    ELSE At("write", 1)

\* except Exception as e: ... sys.exit(1)
AfterWriteContinued(failed, k) ==
    IF k < Len(WriteOrder) THEN At("write", k + 1) ELSE At("done", 0)

AfterWrite(failed, k) ==
    IF failed THEN Exit("write")
    ELSE IF k < Len(WriteOrder) THEN At("write", k + 1)
    ELSE At("done", 0)

ExitStatus(pos) ==
    CASE pos.stage = "exited" -> "1"
      [] pos.stage = "done"   -> "0"
      [] OTHER                -> "none"

\* load_product_from_dataset(args.dataset, args.product_index)
MainLoad(ok) ==
    /\ m_pc.stage = "idle"
    /\ m_pc' = IF ok THEN At("run", 0) ELSE Exit("load")
    /\ exit_status' = ExitStatus(m_pc')
    /\ UNCHANGED <<results, attempts, files>>
    /\ UNCHANGED <<engineVars, agentVars, callVars, canVars, toolVars>>

\* results = orchestrator.execute_dag(product_data), inside try/except
MainRunReturns(r) ==
    /\ m_pc.stage = "run"
    /\ results' = r
    /\ m_pc' = At("validate", 1)
    /\ exit_status' = ExitStatus(m_pc')
    /\ UNCHANGED <<attempts, files>>
    /\ UNCHANGED <<engineVars, agentVars, callVars, canVars, toolVars>>

MainRunRaises ==
    /\ m_pc.stage = "run"
    /\ m_pc' = Exit("run")
    /\ exit_status' = ExitStatus(m_pc')
    /\ UNCHANGED <<results, attempts, files>>
    /\ UNCHANGED <<engineVars, agentVars, callVars, canVars, toolVars>>

\* validate_output_schema(results[t], t) for the next t; results[t] raises
\* KeyError, which the handler for ValueError does not catch
MainValidate ==
    /\ m_pc.stage = "validate"
    /\ LET t == ValidationOrder[m_pc.k]
       IN m_pc' = IF results[t].kind = "missing"
                  THEN Exit("uncaught")
                  ELSE AfterValidation(
                          validate_output_schema(results[t], t) # Accepted,
                          m_pc.k)
    /\ exit_status' = ExitStatus(m_pc')
    /\ UNCHANGED <<results, attempts, files>>
    /\ UNCHANGED <<engineVars, agentVars, callVars, canVars, toolVars>>

\* write_json_output(results[t], FileName(t), args.output_dir) for the next t
MainWrite(o) ==
    /\ m_pc.stage = "write"
    /\ LET t == WriteOrder[m_pc.k]
       IN /\ attempts' = Append(attempts, FileName(t))
          /\ files' = IF o \in {"ok", "dump_failed"}
                      THEN Append(files, [name |-> FileName(t),
                                          complete |-> o = "ok"])
                      ELSE files
    /\ m_pc' = AfterWrite(o # "ok", m_pc.k)
    /\ exit_status' = ExitStatus(m_pc')
    /\ UNCHANGED results
    /\ UNCHANGED <<engineVars, agentVars, callVars, canVars, toolVars>>

NextMain ==
    \/ \E ok \in BOOLEAN : MainLoad(ok)
    \/ \E r \in ResultSets : MainRunReturns(r)
    \/ MainRunRaises
    \/ MainValidate
    \/ \E o \in WriteOutcomes : MainWrite(o)

SpecMain == Init /\ [][NextMain]_vars

----------------------------------------------------------------------------
\* Calls made directly on the agent objects: can_execute with any collection
\* of identities, before or after one execute call.

Contexts == InputRecords \cup {QuestionList}

\* can_execute(completed_agents) on questions, faq or comparison
CanExecuteCall(a, c) ==
    /\ h_pc \in {"idle", "returned", "raised"}
    /\ can_agent' = a
    /\ completed_agents' = c
    /\ can_result' = CanExecute(a, c)
    /\ status' = [status EXCEPT ![a] = StatusAfterCanExecute(status[a])]
    /\ UNCHANGED <<output, engineVars, callVars, toolVars, mainVars>>

\* execute(shared_data) on a fresh agent, from its first statement to its
\* return or to the exception that leaves it
ExecuteWhole(a, d, o1, o2) ==
    /\ op = "none"
    /\ op' = "execute"
    /\ this' = a
    /\ shared_data' = d
    /\ LET r == Execute(a, d, o1, o2)
       IN IF r.err = "none"
          THEN /\ status' = [status EXCEPT
                               ![a] = MarkComplete(StatusOnExecute(status[a]))]
               /\ output' = [output EXCEPT ![a] = r.result]
               /\ h_pc' = "returned"
               /\ h_err' = "none"
          ELSE /\ status' = [status EXCEPT ![a] = StatusOnExecute(status[a])]
               /\ output' = output
               /\ h_pc' = "raised"
               /\ h_err' = r.err
    /\ UNCHANGED <<llm_log, responses, payload, product_b, result, gen_calls,
                   max_retries, attempt, requests, waits, outcomes>>
    /\ UNCHANGED <<engineVars, canVars, toolVars, mainVars>>

NextCan ==
    \/ \E a \in LLMAgents, c \in SUBSET AgentIds : CanExecuteCall(a, c)
    \/ \E a \in LLMAgents, d \in Contexts,
          o1 \in LLMOutcomes, o2 \in LLMOutcomes \ {"missing_field"} :
          ExecuteWhole(a, d, o1, o2)

SpecCan == Init /\ [][NextCan]_vars

----------------------------------------------------------------------------
\* Properties

Count(s, a) == Cardinality({i \in 1..Len(s) : s[i] = a})

Running == {a \in AgentIds : status[a] = "running"}

\* The agents whose entry point has returned.
Completed ==
    IF pc \in {"executing", "raised"}
    THEN {executed[j] : j \in 1..(Len(executed) - 1)}
    ELSE Range(executed)

Remaining == agents \ Completed

\* Every declared dependency is registered, and the execution list names
\* every registered agent exactly once and nothing else.
ValidRegistration ==
    /\ \A a \in agents : Dependencies(a) \subseteq agents
    /\ Range(pipeline) = agents
    /\ \A a \in agents : Count(pipeline, a) = 1

\* get_agent_status(): the status of every agent by identity
get_agent_status == [a \in AgentIds |-> status[a]]

\* What run holds after the first k agents it executed: input_data, then the
\* return value of the k-th (execute returns the output it stored; process
\* of parser and product returns the dict it was given).
RECURSIVE DataAfter(_, _)
DataAfter(seq, k) ==
    IF k = 0 THEN input_data
    ELSE IF seq[k] \in LLMAgents THEN output[seq[k]]
    ELSE DataAfter(seq, k - 1)

\* C1: under a valid registration every agent starts executing only after
\* all of its declared dependencies have completed, so the execution order is
\* a topological order of the dependency graph.
C1_TopologicalOrder ==
    (pc # "config" /\ ValidRegistration) =>
        \A i \in 1..Len(executed) :
            Dependencies(executed[i]) \subseteq
                {executed[j] : j \in 1..(i - 1)}

C3_ExactlyOnce ==
    /\ \A a \in AgentIds : Count(executed, a) <= 1
    /\ pc = "returned" => agents \subseteq Range(executed)

\* C4: when a registered agent declares a dependency that is not registered,
\* or the execution list names an agent that is not registered, the run
\* executes no agent and ends with GraphConfigurationError.
C4_GraphConfigurationError ==
    (/\ pc # "config"
     /\ \/ \E a \in agents : ~(Dependencies(a) \subseteq agents)
        \/ \E i \in 1..Len(pipeline) : pipeline[i] \notin agents) =>
        /\ executed = <<>>
        /\ pc # "returned"
        /\ pc = "raised" => error = "GraphConfigurationError"

\* C5: when an agent's execute has failed, that agent's status is failed;
\* it is not left running.
C5_FailedStatus ==
    failedAgent # "none" => status[failedAgent] = "failed"

\* C6: a run that returns normally has every registered agent completed and
\* returns a mapping holding a result under each registered agent's identity.
C6_CompleteResult ==
    pc = "returned" =>
        \A a \in agents :
            /\ status[a] = "completed"
            /\ IsDict(current_data)
            /\ a \in current_data.keys

\* C7: when a scan finds no runnable agent among the remaining ones, the run
\* fails with GraphConfigurationError.
C7_NoRunnableFails ==
    [][(/\ pc = "running"
        /\ Remaining # {}
        /\ \A a \in Remaining : ~CanExecute(a, Completed)) =>
            (pc' = "raised" /\ error' = "GraphConfigurationError")]_vars

LegalMove(s, t) ==
    \/ s = t
    \/ s = "pending" /\ t = "running"
    \/ s = "running" /\ t \in {"completed", "failed"}

\* C8: a status only moves pending -> running -> completed or
\* pending -> running -> failed; completed and failed never change again.
C8_StatusSinks ==
    [][\A a \in AgentIds : LegalMove(status[a], status'[a])]_vars

C10_ContextMonotone ==
    [][pc # "config" =>
         /\ current_data.keys \subseteq current_data'.keys
         /\ input_data.keys \subseteq current_data'.keys
         /\ \A a \in AgentIds :
              status'[a] = "completed" => a \in current_data'.keys]_vars

\* C11: for questions, faq and comparison and every collection of agent
\* identities, can_execute returns true exactly when every declared
\* dependency of the agent is in the collection.
C11_CanExecuteIffDependencies ==
    can_agent # "none" =>
        (can_result <=> Dependencies(can_agent) \subseteq completed_agents)

C11_Witness ==
    /\ can_agent = "faq"
    /\ completed_agents = {"parser", "product", "comparison"}
    /\ can_result = FALSE

\* C12: a can_execute call leaves every agent's status and output, the
\* shared context and everything else unchanged, and a call with the same
\* agent and argument as the previous one returns the same value, whatever
\* happened to the agent in between.
C12_CanExecutePure ==
    [][/\ canVars' # canVars =>
            UNCHANGED <<status, output, shared_data, engineVars, callVars>>
       /\ (/\ can_agent # "none"
           /\ can_agent' = can_agent
           /\ completed_agents' = completed_agents) =>
            can_result' = can_result]_vars

C12_Witness ==
    /\ can_agent = "questions"
    /\ status["questions"] = "completed"
    /\ shared_data # NoData
    /\ can_result = TRUE

\* C13: execute leaves the shared data it was given as it is from the call
\* to the return or the raise, and the keys it reads are all among the
\* declared dependencies of the agent.
C13_SharedDataUntouched ==
    [][/\ op = "execute" => (shared_data' = shared_data /\ this' = this)
       /\ op' = "execute" =>
            Range(ReadKeys(this')) \subseteq Dependencies(this')]_vars

C13_Witness ==
    /\ this = "faq"
    /\ h_pc = "raised"
    /\ h_err = "SchemaFailure"
    /\ shared_data.keys = RawKeys \cup ContextKeys

\* C14: inside one generate call every attempt that is followed by another
\* one failed with a rate-limit error, a wait is made for the rate-limit
\* failures only, and an attempt that failed otherwise ends the call with
\* the error raised.
C14_RetryOnlyOnRateLimit ==
    /\ \A i \in 1..Len(outcomes) :
          i < Len(outcomes) => outcomes[i] = "rate_limit"
    /\ Len(waits) =
          Cardinality({i \in 1..Len(outcomes) : outcomes[i] = "rate_limit"})
    /\ (outcomes # <<>> /\ outcomes[Len(outcomes)] = "other_error") =>
          (h_pc = "raised" /\ h_err = "ExternalServiceFailure")

C14_Witness ==
    /\ outcomes = <<"rate_limit", "other_error">>
    /\ waits = <<10>>
    /\ h_pc = "raised"

\* C15: one generate call issues at most max_retries requests, a call whose
\* permitted attempts all failed with a rate-limit error does not return,
\* and every generate call ends by returning or raising.
C15_BoundedAttempts ==
    /\ [](/\ Len(outcomes) <= max_retries
          /\ (/\ gen_calls > 0
              /\ Len(outcomes) = max_retries
              /\ \A i \in 1..Len(outcomes) : outcomes[i] = "rate_limit") =>
                (h_pc = "gen_loop" \/ h_err = "ExternalServiceFailure"))
    /\ (h_pc = "gen_loop") ~> (h_pc # "gen_loop")

C15_Witness ==
    /\ op = "generate_json"
    /\ max_retries = DefaultMaxRetries
    /\ outcomes = <<"rate_limit", "rate_limit", "rate_limit">>
    /\ requests = DefaultMaxRetries
    /\ h_pc = "raised"

\* C16: every generate_json invocation makes exactly one generate call, a
\* response that cannot be decoded ends the call and the agent with the
\* error raised, and no call is made after it.
C16_SingleGenerateNoRetry ==
    /\ gen_calls = Len(llm_log) + (IF op = "generate" THEN 1 ELSE 0)
    /\ \A i \in 1..Len(responses) : i < Len(responses) => Decodable(responses[i])
    /\ Len(responses) <= Len(llm_log)
    /\ (responses # <<>> /\ ~Decodable(responses[Len(responses)])) =>
          (h_pc = "raised" /\ h_err = "GenerationFailure")
    /\ op = "generate_json" => Len(llm_log) = 1

C16_Witness ==
    /\ op = "execute"
    /\ this = "faq"
    /\ responses = <<"garbage">>
    /\ h_pc = "raised"
    /\ gen_calls = 1

\* C17: an execute of the FAQ agent that returns has produced exactly as many
\* entries as there are questions in the shared data.
C17_FAQCardinality ==
    (this = "faq" /\ h_pc = "returned") => output["faq"].n = shared_data.nq

\* C18: whatever fields the competitor payload omits or leaves without a
\* usable value, the product record built from it has a usable value in all
\* eight fields (the default where the payload had none, the payload's value
\* elsewhere) and the agent does not fail on it.
C18_DefaultsFilled ==
    (this = "comparison" /\ (Len(llm_log) = 2 \/ h_err = "SchemaFailure")) =>
        /\ h_err # "SchemaFailure"
        /\ \A x \in ProductFields : product_b[x] \notin BadFieldStates
        /\ Len(responses) = 1 =>
              \A x \in ProductFields :
                 product_b[x] = IF payload[x] \in BadFieldStates
                                THEN "default" ELSE payload[x]

\* C19: the comparison agent asks for the competitor first and the analysis
\* second, an execute that returns has made exactly these two calls, and a
\* response that cannot be decoded makes execute fail with GenerationFailure.
C19_TwoCallsInOrder ==
    this = "comparison" =>
        /\ llm_log \in {<<>>, <<"competitor">>, <<"competitor", "analysis">>}
        /\ h_pc = "returned" =>
              (llm_log = <<"competitor", "analysis">> /\ gen_calls = 2)
        /\ (\E i \in 1..Len(responses) : ~Decodable(responses[i])) =>
              (h_pc = "raised" /\ h_err = "GenerationFailure")

C19_Witness ==
    /\ this = "comparison"
    /\ h_pc = "returned"
    /\ llm_log = <<"competitor", "analysis">>
    /\ requests = 2

\* C20: when an item of the decoded questions payload lacks "id", "text" or
\* "category", execute raises SchemaFailure, the agent is not completed, and
\* no list is stored as its output or returned.
C20_NoPartialQuestions ==
    (/\ this = "questions"
     /\ h_pc \in {"returned", "raised"}
     /\ responses # <<>>
     /\ Decodable(responses[Len(responses)])
     /\ FirstBad(payload) # 0) =>
        /\ h_pc = "raised"
        /\ h_err = "SchemaFailure"
        /\ status["questions"] # "completed"
        /\ output["questions"] = NoData
        /\ result = "none"

C20_Witness ==
    /\ this = "questions"
    /\ h_err = "SchemaFailure"
    /\ h_pc = "raised"
    /\ Len(payload) = 2
    /\ payload[1] = "full"
    /\ status["questions"] = "running"

\* C21: validate_faq_count returns normally exactly for the outputs whose
\* faqs is a list of at least 15 entries, and for a list of fewer entries it
\* raises an error whose message carries the minimum 15 and the count found.
C21_FaqCountAtLeast15 ==
    fn = "validate_faq_count" =>
        LET o == fn_in.output
        IN /\ fn_out = Accepted <=>
                (o.kind = "dict" /\ o.faqs = "list" /\ o.faq_count >= 15)
           /\ (o.kind = "dict" /\ o.faqs = "list" /\ o.faq_count < 15) =>
                (/\ fn_out.error = "faq_count"
                 /\ fn_out.minimum = 15
                 /\ fn_out.count = o.faq_count)

C21_Witness ==
    /\ fn = "validate_faq_count"
    /\ fn_in.output.faqs = "list"
    /\ fn_in.output.faq_count = 10
    /\ fn_out = [error |-> "faq_count", minimum |-> 15, count |-> 10]

C23_ParserRoundTrip ==
    (pipeline = <<"parser">> /\ "parser" \in agents /\ pc = "returned") =>
        /\ current_data = input_data
        /\ executed = <<"parser">>
        /\ requests = 0
        /\ llm_log = <<>>

C23_Witness ==
    /\ pipeline = <<"parser">>
    /\ "parser" \in agents
    /\ pc = "returned"
    /\ input_data.keys = RawKeys \cup ContextKeys

C28_RunInListOrder ==
    pc \in {"running", "returned"} =>
        LET Registered(x) == x \in agents
        IN /\ executed = SelectSeq(SubSeq(pipeline, 1, idx - 1), Registered)
           /\ current_data = DataAfter(executed, Len(executed))
           /\ pc = "returned" => idx = Len(pipeline) + 1

C28_Witness ==
    /\ pc = "returned"
    /\ agents = {"questions"}
    /\ pipeline = <<"product", "questions">>
    /\ executed = <<"questions">>
    /\ current_data = QuestionList

\* C25 as stated: within one generate call every wait is at least twice the
\* wait before it.
C25_ExponentialBackoff ==
    \A k \in 1..Len(waits) : k > 1 => waits[k] >= 2 * waits[k - 1]

\* C25 amended: within one generate call the first wait is 10 s, every later
\* wait is the wait before it plus 10 s, and no wait exceeds 10 s times
\* max_retries.
C25_LinearBackoff ==
    \A k \in 1..Len(waits) :
        /\ k = 1 => waits[k] = 10
        /\ k > 1 => waits[k] = waits[k - 1] + 10
        /\ waits[k] <= 10 * max_retries

C25_Witness ==
    /\ op = "generate"
    /\ max_retries = 4
    /\ waits = <<10, 20, 30, 40>>

\* C29: the i-th rate-limit failure of a generate call is followed by a wait
\* of 10 * i seconds, the last permitted attempt included, so a call that
\* used up its attempts has waited max_retries times before it raises; after
\* an attempt that succeeded there is no wait.
C29_WaitAfterEveryRateLimit ==
    LET limited == {i \in 1..Len(outcomes) : outcomes[i] = "rate_limit"}
    IN /\ Len(waits) = Cardinality(limited)
       /\ \A i \in 1..Len(waits) : waits[i] = 10 * i
       /\ (/\ gen_calls > 0
           /\ h_pc = "raised"
           /\ Cardinality(limited) = Len(outcomes)) =>
             Len(waits) = max_retries
       /\ (outcomes # <<>> /\ outcomes[Len(outcomes)] = "ok") =>
             Len(waits) = Len(outcomes) - 1

C29_Witness ==
    /\ op = "generate"
    /\ max_retries = DefaultMaxRetries
    /\ waits = <<10, 20, 30>>
    /\ h_pc = "raised"

\* The first balanced span of a text: it starts at the first bracket and
\* ends at the first position where that bracket's span is one JSON value.
FirstBracket(r) ==
    CHOOSE i \in 1..Len(r) :
        r[i] \in {"[", "{"} /\ \A k \in 1..(i - 1) : r[k] \notin {"[", "{"}

SpanEnds(r, i) == {j \in i..Len(r) : IsJson(SubSeq(r, i, j), 1, <<>>)}

\* C26: when the response without its code-fence markers is plain text
\* followed by one JSON array or object followed by anything (closing
\* brackets and further bracketed spans included), generate_json returns
\* the decoding of that first array or object.
C26_FirstBalancedSpan ==
    fn = "generate_json" =>
        LET r == StripFences(fn_in)
        IN (/\ \E i \in 1..Len(r) : r[i] \in {"[", "{"}
            /\ \A k \in 1..(FirstBracket(r) - 1) : r[k] = "t"
            /\ SpanEnds(r, FirstBracket(r)) # {}) =>
              LET i == FirstBracket(r)
                  j == CHOOSE j \in SpanEnds(r, i) :
                          \A k \in SpanEnds(r, i) : j <= k
              IN fn_out = [err |-> "none", value |-> SubSeq(r, i, j)]

\* C27: a write is attempted or a file exists only after the run returned
\* results that all pass validate_output_schema; a process that ended on a
\* failed run or a failed validation has exit status 1, has attempted no
\* write and has left no file.
C27_NoFileUnlessValidated ==
    /\ (attempts # <<>> \/ files # <<>>) =>
          \A t \in {"faq", "product", "comparison"} :
              validate_output_schema(results[t], t) = Accepted
    /\ (m_pc.stage = "exited" /\ m_pc.why \in {"run", "validation", "uncaught"}) =>
          (exit_status = "1" /\ attempts = <<>> /\ files = <<>>)

C27_Witness ==
    /\ m_pc = Exit("validation")
    /\ results["faq"] = GoodPage("faq")
    /\ results["product"] = [GoodPage("product") EXCEPT !.page_type = "other"]
    /\ results["comparison"] = GoodPage("comparison")
    /\ exit_status = "1"
    /\ files = <<>>

\* C30: the writes are attempted in the order faq.json, product_page.json,
\* comparison_page.json, each only after the one before it succeeded; a
\* failed write is the last one attempted and ends the process with exit
\* status 1, the files written before it staying complete on disk.
C30_WritesInOrder ==
    LET order == <<"faq.json", "product_page.json", "comparison_page.json">>
        IsComplete(f) == f.complete
        written == SelectSeq(files, IsComplete)
    IN /\ Len(attempts) <= 3
       /\ attempts = SubSeq(order, 1, Len(attempts))
       /\ Len(written) <= Len(attempts)
       /\ \A i \in 1..Len(written) : written[i].name = order[i]
       /\ Len(attempts) <= Len(written) + 1
       /\ Len(attempts) > Len(written) =>
             (m_pc = Exit("write") /\ exit_status = "1")
       /\ m_pc.stage = "done" => (Len(written) = 3 /\ exit_status = "0")

C30_Witness ==
    /\ m_pc = Exit("write")
    /\ exit_status = "1"
    /\ attempts = <<"faq.json", "product_page.json">>
    /\ files = <<[name |-> "faq.json", complete |-> TRUE]>>

====
